---- MODULE Spec2Model ----
(***************************************************************************)
(* storybook-branches (cli.js): the build loop that polls a repository,    *)
(* builds one storybook per branch into <output>/storybooks/<branch>,      *)
(* reconciles the output directories with the live branch set, keeps the   *)
(* injected branch lists current, and the static file server that reads    *)
(* the same tree.                                                          *)
(*                                                                         *)
(* Every awaited file-system or subprocess call of cli.js may reject; the  *)
(* outcome of each such call is an input of the action that makes it.      *)
(***************************************************************************)
EXTENDS Integers, Sequences, FiniteSets, TLC

\* ---------------------------------------------------------------- bounds
\* number of fetches and restarts explored for the build loop alone
MaxCycles == 2
\* number of fetches explored when the server runs beside the loop
SrvMaxCycles == 1

\* ----------------------------------------------------- the environment
\* branch names, in the order the enumerator reports them
BranchOrder == <<"feat", "main">>
Branches == {BranchOrder[i] : i \in 1..Len(BranchOrder)}

\* head commit ids are strings; a string is a sequence of characters and
\* character 0 is white space
H1 == <<1>>
H2 == <<2>>
H3 == <<3>>
Heads == {H1, H2, H3}
\* the commits whose tree holds a .storybook directory
ConfigHeads == {H1, H2}
Gone == <<>>
Absent == <<0, 0>>
\* the states of the remote explored: "main" moves between all heads, "feat"
\* comes and goes at one head
RemoteStates ==
    {r \in [Branches -> Heads \cup {Gone}] : r["feat"] \in {Gone, H1}}
\* the states of the remote explored beside the server: "main" stays, "feat"
\* comes and goes
SrvRemoteStates ==
    {r \in [Branches -> {H1, Gone}] : r["main"] = H1}

\* ------------------------------------------------------------- strings
RECURSIVE TrimLeft(_)
TrimLeft(s) ==
    IF s # <<>> /\ Head(s) = 0 THEN TrimLeft(Tail(s)) ELSE s

RECURSIVE TrimRight(_)
TrimRight(s) ==
    IF s # <<>> /\ s[Len(s)] = 0 THEN TrimRight(SubSeq(s, 1, Len(s) - 1)) ELSE s

\* String.prototype.trim
Trim(s) == TrimRight(TrimLeft(s))

Includes(seq, x) == \E i \in 1..Len(seq) : seq[i] = x

Range(seq) == {seq[i] : i \in 1..Len(seq)}

\* -------------------------------------------------------- entry pages
\* An entry page is a sequence of tokens: the closing body marker, and the
\* customized inject.html snippet holding `const branch = "..."` and
\* `const branches = [...]`.
BodyToken == [t |-> "body", branch |-> "", branches |-> <<>>]
InjectToken(b, bs) == [t |-> "inject", branch |-> b, branches |-> bs]
\* what build-storybook writes as index.html
RawPage == <<BodyToken>>
NoPage == <<[t |-> "nofile", branch |-> "", branches |-> <<>>]>>

\* index of the first token of kind k, 0 when there is none
FirstIndex(content, k) ==
    IF \E i \in 1..Len(content) : content[i].t = k
    THEN CHOOSE i \in 1..Len(content) :
            /\ content[i].t = k
            /\ \A j \in 1..(i - 1) : content[j].t # k
    ELSE 0

\* content.replace("</body>", customized + "</body>")
InjectInto(content, b, bs) ==
    LET i == FirstIndex(content, "body") IN
    IF i = 0 THEN content
    ELSE SubSeq(content, 1, i - 1) \o <<InjectToken(b, bs), BodyToken>>
         \o SubSeq(content, i + 1, Len(content))

\* content.replace(/const branches = \[[^\]]*\];/, `const branches = [...];`)
FixContent(content, bs) ==
    LET i == FirstIndex(content, "inject") IN
    IF i = 0 THEN content
    ELSE [content EXCEPT ![i].branches = bs]

\* the branch list embedded in a page, as a set of sets (empty: none embedded)
EmbeddedLists(content) ==
    {Range(content[i].branches) :
        i \in {j \in 1..Len(content) : content[j].t = "inject"}}

\* ---------------------------------------------------------------- state
VARIABLES
    pc,               \* where main / runBuildLoop stands
    exitCode,         \* process.exitCode
    cycle,            \* fetches and restarts so far
    refs,             \* remote-tracking refs of the working tree: branch -> head, or Gone
    startDefault,     \* the default branch resolved at startup
    defaultBranch,    \* runBuildLoop's defaultBranch
    redirect,         \* branch named by <output>/storybooks/index.html, "" before it is written
    previousBranches, \* runBuildLoop's previousBranches
    currentBranches,  \* runBuildLoop's currentBranches
    branches,         \* the branch list forEachBranch hands to every callback
    idx,              \* position of forEachBranch in branches
    refsOut,          \* the refs forEachBranch has collected so far
    head,             \* head of the branch checked out in the working tree
    ridx,             \* position of removeDeletedBranches in previousBranches
    fidx,             \* position of fixInjectedBranches in currentBranches
    dir,              \* branch -> its output directory exists
    marker,           \* branch -> content of <branch>/.head, or Absent
    page,             \* branch -> content of <branch>/index.html, or NoPage
    attempt,          \* branch -> how its latest build callback ended, and at which head;
                      \* "dropped" or "undeleted" once the branch has left the snapshot
    built,            \* branch -> head of the build that reached "Built", Gone when none on disk
    ioFailed,         \* branches whose remove / re-fix failed in this pass
    srv               \* the request the server is handling

vars == <<pc, exitCode, cycle, refs, startDefault, defaultBranch, redirect,
          previousBranches,
          currentBranches, branches, idx, refsOut, head, ridx, fidx, dir, marker,
          page, attempt, built, ioFailed, srv>>

loopVars == <<startDefault, previousBranches, currentBranches, branches, idx,
              refsOut, head, ridx, fidx>>
diskVars == <<dir, marker, page>>

NoAttempt == [res |-> "none", head |-> Gone]
\* the server between two requests; status and type are those of its last response
IdleSrv ==
    [pc |-> "idle", url |-> <<>>, localPath |-> <<>>, status |-> 0, type |-> "",
     why |-> ""]

InitIn(remotes) ==
    /\ pc = "clone"
    /\ exitCode = 0
    /\ cycle = 0
    /\ refs \in remotes
    /\ startDefault = ""
    /\ defaultBranch = ""
    /\ redirect = ""
    /\ previousBranches = <<>>
    /\ currentBranches = <<>>
    /\ branches = <<>>
    /\ idx = 1
    /\ refsOut = <<>>
    /\ head = Gone
    /\ ridx = 1
    /\ fidx = 1
    /\ dir = [b \in Branches |-> FALSE]
    /\ marker = [b \in Branches |-> Absent]
    /\ page = [b \in Branches |-> NoPage]
    /\ attempt = [b \in Branches |-> NoAttempt]
    /\ built = [b \in Branches |-> Gone]
    /\ ioFailed = {}
    /\ srv = IdleSrv

Init == InitIn(RemoteStates)

\* main().catch: process.exitCode = 1, and with the server unref'd the process ends
Fatal ==
    /\ pc' = "exited"
    /\ exitCode' = 1

\* ------------------------------------------------------------- startup
\* main: mkdirp(storybooks), startServer, git clone unless the working tree exists
Clone ==
    /\ pc = "clone"
    /\ \E ok \in BOOLEAN :
          IF ok THEN pc' = "init" /\ exitCode' = exitCode ELSE Fatal
    /\ UNCHANGED <<cycle, refs, defaultBranch, redirect, loopVars, diskVars,
                   attempt, built, ioFailed, srv>>

\* the values of --default: unset, or a branch name
ArgDefaults == {"", "feat"}
\* the value of --default explored beside the server
SrvArgDefaults == {"feat"}
\* what .git/refs/remotes/origin/HEAD names; "" when it cannot be read
OriginHeads == {"", "main"}

getDefaultBranch(originHead) ==
    IF originHead = "" THEN "master" ELSE originHead

ResolveDefault(arg, originHead) ==
    IF arg = "" THEN getDefaultBranch(originHead) ELSE arg

\* runBuildLoop up to the loop: resolve the default branch, write the redirect page
Initialize(args) ==
    /\ pc = "init"
    /\ \E arg \in args, originHead \in OriginHeads, ok \in BOOLEAN :
          /\ defaultBranch' = ResolveDefault(arg, originHead)
          /\ startDefault' = defaultBranch'
          /\ IF ok
             THEN /\ redirect' = defaultBranch'
                  /\ pc' = "poll"
                  /\ exitCode' = exitCode
             ELSE /\ redirect' = redirect
                  /\ Fatal
    /\ previousBranches' = <<>>
    /\ UNCHANGED <<cycle, refs, currentBranches, branches, idx, refsOut, head,
                   ridx, fidx, diskVars, attempt, built, ioFailed, srv>>

\* ---------------------------------------------------------- enumeration
\* the branch names forEachBranch lists: those with a remote-tracking ref
ListBranches(r) == SelectSeq(BranchOrder, LAMBDA b : r[b] # Gone)

\* runBuildLoop: the call of forEachBranch; a rejection leaves the loop
Enumerate ==
    /\ pc = "poll"
    /\ \E ok \in BOOLEAN :
          IF ok
          THEN /\ pc' = "checkout"
               /\ exitCode' = exitCode
               /\ branches' = ListBranches(refs)
               /\ idx' = 1
               /\ refsOut' = <<>>
          ELSE /\ Fatal
               /\ UNCHANGED <<branches, idx, refsOut>>
    /\ ioFailed' = {}
    /\ UNCHANGED <<cycle, refs, startDefault, defaultBranch, redirect,
                   previousBranches, currentBranches, head, ridx, fidx,
                   diskVars, attempt, built, srv>>

\* forEachBranch settling one callback early
CallbacksDone_early(i, bs) == i >= Len(bs)

\* await forEachBranch: it settles when the callback of its last branch has settled
CallbacksDone(i, bs) == i > Len(bs)

\* forEachBranch: check out the next branch; a failed checkout skips the branch
Checkout ==
    /\ pc = "checkout"
    /\ ~CallbacksDone(idx, branches)
    /\ \E ok \in BOOLEAN :
          IF ok
          THEN /\ pc' = "gate"
               /\ head' = refs[branches[idx]]
               /\ idx' = idx
          ELSE /\ pc' = "checkout"
               /\ head' = head
               /\ idx' = idx + 1
    /\ UNCHANGED <<exitCode, cycle, refs, startDefault, defaultBranch, redirect,
                   previousBranches, currentBranches, branches, refsOut, ridx,
                   fidx, diskVars, attempt, built, ioFailed, srv>>

\* forEachBranch returns its refs; const currentBranches = refs.map(ref => ref.branch)
EnumerateDone ==
    /\ pc = "checkout"
    /\ CallbacksDone(idx, branches)
    /\ pc' = "default"
    /\ currentBranches' = refsOut
    /\ attempt' = attempt
    /\ UNCHANGED <<exitCode, cycle, refs, startDefault, defaultBranch, redirect,
                   previousBranches, branches, idx, refsOut, head, ridx, fidx,
                   diskVars, built, ioFailed, srv>>

\* -------------------------------------------------------------- build
\* build without its try/catch: a rejection of doBuild rejects the callback
build_rethrows == "rethrown"

\* build: the try/catch around doBuild; what a rejection of doBuild does to the loop
build_onError == "caught"

\* the callback of forEachBranch settles: its ref is collected and the next
\* branch is checked out; an uncaught rejection would reject forEachBranch
EndCallback(res) ==
    LET b == branches[idx] IN
    /\ attempt' = [attempt EXCEPT ![b] = [res |-> res, head |-> head]]
    /\ IF res \in {"error", "failed"} /\ build_onError # "caught"
       THEN /\ Fatal
            /\ UNCHANGED <<idx, refsOut>>
       ELSE /\ pc' = "checkout"
            /\ exitCode' = exitCode
            /\ idx' = idx + 1
            /\ refsOut' = Append(refsOut, b)

\* the comparison of doBuild inverted
UpToDate_inverted(current, h) == Trim(current) # h

\* doBuild: current.trim() === head
UpToDate(current, h) == Trim(current) = h

\* doBuild without its configuration check
HasConfig_unchecked(h) == TRUE

\* doBuild: exists(join(input, ".storybook")) in the tree checked out at head h
HasConfig(h) == h \in ConfigHeads

\* doBuild, lines 189-211: the configuration check, the marker check, mkdirp and
\* the write of the marker
GateOutcomes == {"ok", "configErr", "readErr", "mkdirpErr", "writeErr"}

BuildGate ==
    /\ pc = "gate"
    /\ LET b == branches[idx] IN
       \E o \in GateOutcomes :
          IF o = "configErr"
          THEN EndCallback("error") /\ UNCHANGED <<diskVars, built>>
          ELSE IF ~HasConfig(head)
          THEN EndCallback("noconfig") /\ UNCHANGED <<diskVars, built>>
          ELSE IF o = "readErr"
          THEN EndCallback("error") /\ UNCHANGED <<diskVars, built>>
          ELSE IF marker[b] # Absent /\ UpToDate(marker[b], head)
          THEN EndCallback("uptodate") /\ UNCHANGED <<diskVars, built>>
          ELSE IF o = "mkdirpErr"
          THEN EndCallback("error") /\ UNCHANGED <<diskVars, built>>
          ELSE IF o = "writeErr"
          THEN /\ EndCallback("error")
               /\ dir' = [dir EXCEPT ![b] = TRUE]
               /\ UNCHANGED <<marker, page, built>>
          ELSE /\ pc' = "install"
               /\ dir' = [dir EXCEPT ![b] = TRUE]
               /\ marker' = [marker EXCEPT ![b] = head]
               /\ built' = [built EXCEPT ![b] = Gone]
               /\ UNCHANGED <<exitCode, idx, refsOut, attempt, page>>
    /\ UNCHANGED <<cycle, refs, startDefault, defaultBranch, redirect,
                   previousBranches, currentBranches, branches, head, ridx,
                   fidx, ioFailed, srv>>

\* doBuild, line 213: yarn install
Install ==
    /\ pc = "install"
    /\ \E ok \in BOOLEAN :
          IF ok
          THEN pc' = "prebuild" /\ UNCHANGED <<exitCode, idx, refsOut, attempt>>
          ELSE EndCallback("failed")
    /\ UNCHANGED <<cycle, refs, startDefault, defaultBranch, redirect,
                   previousBranches, currentBranches, branches, head, ridx,
                   fidx, diskVars, built, ioFailed, srv>>

\* doBuild, lines 215-218: read package.json, run the pre-build hook if declared
PreBuild ==
    /\ pc = "prebuild"
    /\ \E o \in {"ok", "readJsonErr", "hookFailed"} :
          IF o = "ok"
          THEN pc' = "tool" /\ UNCHANGED <<exitCode, idx, refsOut, attempt>>
          ELSE EndCallback("failed")
    /\ UNCHANGED <<cycle, refs, startDefault, defaultBranch, redirect,
                   previousBranches, currentBranches, branches, head, ridx,
                   fidx, diskVars, built, ioFailed, srv>>

\* doBuild, lines 220-238: the build tool, and the relocation of its output when
\* it wrote it relative to the checkout.
\*   missing   node_modules/.bin/build-storybook does not exist: warn and return
\*   existsErr a stat of the tool or of the wrong place fails
\*   toolErr   the tool exits non-zero before it wrote the entry page
\*   toolErrW  the tool exits non-zero after it wrote a new entry page
\*   copyErr   the tool wrote to the wrong place and copy fails
\*   removeErr the output was copied and the removal of the wrong place fails
\*   ok        the output, with a new entry page, is in the output directory
ToolOutcomes ==
    {"ok", "missing", "existsErr", "toolErr", "toolErrW", "copyErr", "removeErr"}

RunTool ==
    /\ pc = "tool"
    /\ LET b == branches[idx] IN
       \E o \in ToolOutcomes :
          /\ page' = IF o \in {"ok", "toolErrW", "removeErr"}
                     THEN [page EXCEPT ![b] = RawPage] ELSE page
          /\ IF o = "ok"
             THEN pc' = "inject" /\ UNCHANGED <<exitCode, idx, refsOut, attempt>>
             ELSE IF o = "missing"
             THEN EndCallback("nobinary")
             ELSE EndCallback("failed")
    /\ UNCHANGED <<cycle, refs, startDefault, defaultBranch, redirect,
                   previousBranches, currentBranches, branches, head, ridx,
                   fidx, dir, marker, built, ioFailed, srv>>

\* writeModifiedIndexFile, called as the last statement of doBuild
Inject ==
    /\ pc = "inject"
    /\ LET b == branches[idx] IN
       \E o \in {"ok", "readErr", "writeErr"} :
          IF o = "ok" /\ page[b] # NoPage
          THEN /\ page' = [page EXCEPT ![b] = InjectInto(page[b], b, branches)]
               /\ built' = [built EXCEPT ![b] = head]
               /\ EndCallback("built")
          ELSE /\ EndCallback("failed")
               /\ UNCHANGED <<page, built>>
    /\ UNCHANGED <<cycle, refs, startDefault, defaultBranch, redirect,
                   previousBranches, currentBranches, branches, head, ridx,
                   fidx, dir, marker, ioFailed, srv>>

\* ---------------------------------------------------------- reconciling
\* the default branch following the first branch in every cycle
NewDefault_first(current, default) ==
    IF Len(current) > 0 THEN current[1] ELSE default

\* the default branch never falling back
NewDefault_keeps(current, default) == default

\* the fallback taking the last branch instead of the first
NewDefault_last(current, default) ==
    IF Len(current) > 0 /\ ~Includes(current, default)
    THEN current[Len(current)] ELSE default

\* runBuildLoop, lines 161-162: the default branch after this cycle's enumeration
NewDefault(current, default) ==
    IF Len(current) > 0 /\ ~Includes(current, default) THEN current[1] ELSE default

\* runBuildLoop, lines 160-165; a failed write of the redirect page rejects runBuildLoop
DefaultStep ==
    /\ pc = "default"
    /\ defaultBranch' = NewDefault(currentBranches, defaultBranch)
    /\ IF defaultBranch' = defaultBranch
       THEN /\ pc' = "remove"
            /\ UNCHANGED <<exitCode, redirect>>
       ELSE \E ok \in BOOLEAN :
               IF ok
               THEN /\ redirect' = defaultBranch'
                    /\ pc' = "remove"
                    /\ exitCode' = exitCode
               ELSE /\ redirect' = redirect
                    /\ Fatal
    /\ ridx' = 1
    /\ UNCHANGED <<cycle, refs, startDefault, previousBranches, currentBranches,
                   branches, idx, refsOut, head, fidx, diskVars, attempt, built,
                   ioFailed, srv>>

\* removeDeletedBranches finding no branch deleted
IsDeleted_never(current, previousBranch) == FALSE

\* removeDeletedBranches without its test: every previous branch is removed
IsDeleted_always(current, previousBranch) == TRUE

\* removeDeletedBranches: !branches.includes(previousBranch)
IsDeleted(current, previousBranch) == ~Includes(current, previousBranch)

\* the loop of removeDeletedBranches left at the first removal that fails
remove_abandons(i, n) == n + 1

\* removeDeletedBranches: the catch around remove logs and continues with the
\* next previous branch
remove_onError(i, n) == i + 1

\* removeDeletedBranches: one turn of its loop
RemoveStep ==
    /\ pc = "remove"
    /\ ridx <= Len(previousBranches)
    /\ LET b == previousBranches[ridx] IN
       \E ok \in BOOLEAN :
          IF IsDeleted(currentBranches, b) /\ ok
          THEN /\ dir' = [dir EXCEPT ![b] = FALSE]
               /\ marker' = [marker EXCEPT ![b] = Absent]
               /\ page' = [page EXCEPT ![b] = NoPage]
               /\ built' = [built EXCEPT ![b] = Gone]
               /\ ioFailed' = ioFailed
               /\ ridx' = ridx + 1
          ELSE IF IsDeleted(currentBranches, b)
          THEN /\ ioFailed' = ioFailed \cup {b}
               /\ ridx' = remove_onError(ridx, Len(previousBranches))
               /\ UNCHANGED <<diskVars, built>>
          ELSE /\ ridx' = ridx + 1
               /\ UNCHANGED <<diskVars, built, ioFailed>>
    /\ UNCHANGED <<pc, exitCode, cycle, refs, startDefault, defaultBranch,
                   redirect, previousBranches, currentBranches, branches, idx,
                   refsOut, head, fidx, attempt, srv>>

RemoveDone ==
    /\ pc = "remove"
    /\ ridx > Len(previousBranches)
    /\ pc' = "fix"
    /\ fidx' = 1
    /\ UNCHANGED <<exitCode, cycle, refs, startDefault, defaultBranch, redirect,
                   previousBranches, currentBranches, branches, idx, refsOut,
                   head, ridx, diskVars, attempt, built, ioFailed, srv>>

\* fixInjectedBranches: one turn of its loop; a missing entry page is skipped
FixStep ==
    /\ pc = "fix"
    /\ fidx <= Len(currentBranches)
    /\ LET b == currentBranches[fidx] IN
       \E o \in {"ok", "readErr", "writeErr"} :
          IF page[b] = NoPage /\ o # "readErr"
          THEN UNCHANGED <<page, ioFailed>>
          ELSE IF o = "ok"
          THEN /\ page' = [page EXCEPT ![b] = FixContent(page[b], currentBranches)]
               /\ ioFailed' = ioFailed
          ELSE /\ page' = page
               /\ ioFailed' = ioFailed \cup {b}
    /\ fidx' = fidx + 1
    /\ UNCHANGED <<pc, exitCode, cycle, refs, startDefault, defaultBranch,
                   redirect, previousBranches, currentBranches, branches, idx,
                   refsOut, head, ridx, dir, marker, attempt, built, srv>>

\* runBuildLoop, line 169: previousBranches = currentBranches; a branch that
\* leaves the snapshot is remembered as "dropped", or as "undeleted" when the
\* deletion of its directory failed, with the head of its last callback, until
\* it is reported again
FixDone ==
    /\ pc = "fix"
    /\ fidx > Len(currentBranches)
    /\ pc' = "sleep"
    /\ previousBranches' = currentBranches
    /\ attempt' = [b \in Branches |->
                      IF Includes(currentBranches, b) THEN attempt[b]
                      ELSE IF Includes(previousBranches, b) /\ b \notin ioFailed
                      THEN [attempt[b] EXCEPT !.res = "dropped"]
                      ELSE IF Includes(previousBranches, b)
                      THEN [attempt[b] EXCEPT !.res = "undeleted"]
                      ELSE IF attempt[b].res \in {"dropped", "undeleted"}
                      THEN attempt[b]
                      ELSE NoAttempt]
    /\ UNCHANGED <<exitCode, cycle, refs, startDefault, defaultBranch, redirect,
                   currentBranches, branches, idx, refsOut, head, ridx, fidx,
                   diskVars, built, ioFailed, srv>>

\* doSleep
Sleep ==
    /\ pc = "sleep"
    /\ pc' = "fetch"
    /\ UNCHANGED <<exitCode, cycle, refs, defaultBranch, redirect, loopVars,
                   diskVars, attempt, built, ioFailed, srv>>

\* runBuildLoop, line 175: git fetch --prune; a failed fetch rejects runBuildLoop
Fetch(maxCycles, remotes) ==
    /\ pc = "fetch"
    /\ cycle < maxCycles
    /\ \E ok \in BOOLEAN :
          IF ok
          THEN /\ refs' \in remotes
               /\ pc' = "poll"
               /\ exitCode' = exitCode
          ELSE /\ refs' = refs
               /\ Fatal
    /\ cycle' = cycle + 1
    /\ UNCHANGED <<defaultBranch, redirect, loopVars, diskVars, attempt, built,
                   ioFailed, srv>>

\* ---------------------------------------------------------- the server
\* File-system paths are sequences of segments from the file-system root. The
\* pathname of a request is the sequence of what stands between its slashes:
\* "/feat" is <<"feat">>, "/feat/" is <<"feat", "">> and "/" is <<"">>.
Storybooks == <<"out", "storybooks">>

\* what exists outside the storybooks tree: the output directory and the
\* working tree beside the storybooks
OutsideDirs == {<<>>, <<"out">>, <<"out", "repository">>}
OutsideFiles == {<<"out", "repository", "package.json">>}

\* The paths of one branch: "dir" is /b, "slash" is /b/, "index" is
\* /b/index.html and "head" is /b/.head.
Leaves == {"dir", "slash", "index", "head"}

Url(b, leaf) ==
    IF leaf = "dir" THEN <<b>>
    ELSE IF leaf = "slash" THEN <<b, "">>
    ELSE IF leaf = "index" THEN <<b, "index.html">>
    ELSE <<b, ".head">>

\* the pathnames requested: the paths of every branch, the root and its entry
\* page, a path below a file, and paths with ".." that stay inside the tree or
\* leave it
Urls ==
    {Url(b, leaf) : b \in Branches, leaf \in Leaves}
    \cup {<<"">>, <<"index.html">>, <<"index.html", "x">>,
          <<"feat", "..", "main", "">>,
          <<"..", "repository", "package.json">>, <<"..", "">>}

\* what stat finds at the path of a branch
Kind(b, leaf) ==
    IF leaf \in {"dir", "slash"} THEN (IF dir[b] THEN "dir" ELSE "none")
    ELSE IF leaf = "index" THEN (IF page[b] # NoPage THEN "file" ELSE "none")
    ELSE (IF marker[b] # Absent THEN "file" ELSE "none")

\* what is at a path: "dir", "file" or "none"
Node(p) ==
    LET n == Len(Storybooks) IN
    IF p \in OutsideDirs THEN "dir"
    ELSE IF p \in OutsideFiles THEN "file"
    ELSE IF p = Storybooks THEN "dir"
    ELSE IF Len(p) <= n \/ SubSeq(p, 1, n) # Storybooks THEN "none"
    ELSE IF Len(p) = n + 1 /\ p[n + 1] = "index.html"
    THEN (IF redirect # "" THEN "file" ELSE "none")
    ELSE IF p[n + 1] \notin Branches THEN "none"
    ELSE IF Len(p) = n + 1 THEN Kind(p[n + 1], "dir")
    ELSE IF Len(p) = n + 2 /\ p[n + 2] = "index.html" THEN Kind(p[n + 1], "index")
    ELSE IF Len(p) = n + 2 /\ p[n + 2] = ".head" THEN Kind(p[n + 1], "head")
    ELSE "none"

\* the result of stat: a path that leads through a file fails with ENOTDIR,
\* one that names nothing with ENOENT
Stat(p) ==
    IF \E i \in 0..(Len(p) - 1) : Node(SubSeq(p, 1, i)) = "file" THEN "notdir"
    ELSE Node(p)

\* path.resolve(dir, "./" + pathname): "" and "." segments are dropped, ".."
\* drops the segment before it, and the root is its own parent
RECURSIVE Normalize(_, _)
Normalize(base, segs) ==
    IF segs = <<>> THEN base
    ELSE LET s == Head(segs) IN
         Normalize(IF s \in {"", "."} THEN base
                   ELSE IF s = ".."
                   THEN (IF base = <<>> THEN base
                         ELSE SubSeq(base, 1, Len(base) - 1))
                   ELSE Append(base, s),
                   Tail(segs))

resolve(base, pathname) == Normalize(base, pathname)

\* the test of the handler left out
startsWith_anything(localPath, prefixDir) == TRUE

\* localPath.startsWith(prefix), prefix being resolve(dir) + "/"
startsWith(localPath, prefixDir) ==
    /\ Len(localPath) > Len(prefixDir)
    /\ SubSeq(localPath, 1, Len(prefixDir)) = prefixDir

\* the path the handler looks up: a path that is not below the storybooks
\* directory is replaced by that directory
LocalPath(pathname) ==
    LET localPath == resolve(Storybooks, pathname) IN
    IF startsWith(localPath, Storybooks) THEN localPath ELSE Storybooks

\* url.pathname.endsWith("/")
EndsWithSlash(pathname) == pathname[Len(pathname)] = ""

\* path.parse(localPath).ext of the file names served
Ext(p) == IF p[Len(p)] = "index.html" THEN ".html" ELSE ""

\* mimeType[ext] || "text/plain"
ContentType(ext) == IF ext = ".html" THEN "text/html" ELSE "text/plain"

Running == pc \notin {"exited", "down"}

Respond(code, type) == srv' = [IdleSrv EXCEPT !.status = code, !.type = type]
Rejected(why) == srv' = [srv EXCEPT !.pc = "rejected", !.why = why]

\* createServer's handler up to the call of exists(localPath)
SrvReceive ==
    /\ Running
    /\ srv.pc = "idle"
    /\ \E pathname \in Urls :
          srv' = [IdleSrv EXCEPT !.pc = "exists", !.url = pathname,
                                 !.localPath = LocalPath(pathname)]
    /\ UNCHANGED <<pc, exitCode, cycle, refs, defaultBranch, redirect, loopVars,
                   diskVars, attempt, built, ioFailed>>

\* exists(localPath): stat; ENOENT resolves false, any other error rejects, and
\* the promise the handler builds on it has no rejection handler
SrvExists ==
    /\ Running
    /\ srv.pc = "exists"
    /\ \E ok \in BOOLEAN :
          IF ~ok THEN Rejected("statErr")
          ELSE IF Stat(srv.localPath) = "notdir" THEN Rejected("notdir")
          ELSE IF Stat(srv.localPath) = "none" THEN Respond(404, "")
          ELSE srv' = [srv EXCEPT !.pc = "statSync"]
    /\ UNCHANGED <<pc, exitCode, cycle, refs, defaultBranch, redirect, loopVars,
                   diskVars, attempt, built, ioFailed>>

\* the then-callback: fs.statSync(localPath), which throws when the path is gone;
\* a directory without trailing slash redirects, with one serves its index.html
SrvStatSync ==
    /\ Running
    /\ srv.pc = "statSync"
    /\ LET k == Stat(srv.localPath) IN
       IF k \in {"none", "notdir"} THEN Rejected("vanished")
       ELSE IF k = "dir" /\ ~EndsWithSlash(srv.url) THEN Respond(301, "")
       ELSE IF k = "dir"
       THEN srv' = [srv EXCEPT !.pc = "read",
                               !.localPath = Append(srv.localPath, "index.html")]
       ELSE srv' = [srv EXCEPT !.pc = "read"]
    /\ UNCHANGED <<pc, exitCode, cycle, refs, defaultBranch, redirect, loopVars,
                   diskVars, attempt, built, ioFailed>>

\* the callback of fs.readFile
SrvRead ==
    /\ Running
    /\ srv.pc = "read"
    /\ \E ok \in BOOLEAN :
          IF ok /\ Stat(srv.localPath) = "file"
          THEN Respond(200, ContentType(Ext(srv.localPath)))
          ELSE Respond(500, "")
    /\ UNCHANGED <<pc, exitCode, cycle, refs, defaultBranch, redirect, loopVars,
                   diskVars, attempt, built, ioFailed>>

\* an unhandled rejection in a Node.js that only warns: the request is never
\* answered and the server goes on
SrvUnanswered ==
    /\ Running
    /\ srv.pc = "rejected"
    /\ srv' = IdleSrv
    /\ UNCHANGED <<pc, exitCode, cycle, refs, defaultBranch, redirect, loopVars,
                   diskVars, attempt, built, ioFailed>>

\* ------------------------------------------------------ process lifetime
\* the process ends and what it held in memory is lost
MemoryLost ==
    /\ startDefault' = ""
    /\ defaultBranch' = ""
    /\ previousBranches' = <<>>
    /\ currentBranches' = <<>>
    /\ branches' = <<>>
    /\ idx' = 1
    /\ refsOut' = <<>>
    /\ head' = Gone
    /\ ridx' = 1
    /\ fidx' = 1
    /\ attempt' = [b \in Branches |-> NoAttempt]
    /\ ioFailed' = {}
    /\ srv' = IdleSrv

\* the process receives a termination signal
Kill ==
    /\ Running
    /\ pc' = "down"
    /\ MemoryLost
    /\ UNCHANGED <<exitCode, cycle, refs, redirect, diskVars, built>>

\* an unhandled rejection in a Node.js that ends the process on one
SrvCrash ==
    /\ Running
    /\ srv.pc = "rejected"
    /\ pc' = "down"
    /\ exitCode' = 1
    /\ MemoryLost
    /\ UNCHANGED <<cycle, refs, redirect, diskVars, built>>

\* the process is started again on the same output directory: the working tree
\* and the storybooks tree are those the earlier run left
Restart(maxCycles) ==
    /\ ~Running
    /\ cycle < maxCycles
    /\ pc' = "clone"
    /\ exitCode' = 0
    /\ cycle' = cycle + 1
    /\ MemoryLost
    /\ UNCHANGED <<refs, redirect, diskVars, built>>

\* ------------------------------------------------------- specification
Loop(maxCycles, remotes, args) ==
    \/ Clone
    \/ Initialize(args)
    \/ Enumerate
    \/ Checkout
    \/ EnumerateDone
    \/ BuildGate
    \/ Install
    \/ PreBuild
    \/ RunTool
    \/ Inject
    \/ DefaultStep
    \/ RemoveStep
    \/ RemoveDone
    \/ FixStep
    \/ FixDone
    \/ Sleep
    \/ Fetch(maxCycles, remotes)

\* the build loop alone, over process restarts
Next == Loop(MaxCycles, RemoteStates, ArgDefaults) \/ Kill \/ Restart(MaxCycles)

Spec == Init /\ [][Next]_vars

Server ==
    \/ SrvReceive
    \/ SrvExists
    \/ SrvStatSync
    \/ SrvRead
    \/ SrvUnanswered
    \/ SrvCrash

\* the build loop with the server handling requests beside it
NextServer == Loop(SrvMaxCycles, SrvRemoteStates, SrvArgDefaults) \/ Server

InitServer == InitIn(SrvRemoteStates)

SpecServer == InitServer /\ [][NextServer]_vars

\* --------------------------------------------------------------- claims
BuildPcs == {"gate", "install", "prebuild", "tool", "inject"}
ReconcilePcs == {"default", "remove", "fix", "sleep", "fetch"}

\* C1: whenever the marker of a branch exists with value h, a build of that
\* branch at head h has run to its end ("Built"), so the marker is never there
\* before or during a build nor after a failed one.
C1_MarkerOnlyAfterSuccess ==
    \A b \in Branches : marker[b] # Absent => built[b] = marker[b]

C2_GateStep ==
    (/\ pc = "gate"
     /\ head \in ConfigHeads
     /\ attempt[branches[idx]].res \in {"failed", "nobinary"}
     /\ attempt[branches[idx]].head = head
     /\ pc' # "down"
     /\ attempt'[branches[idx]].res # "error")
    => pc' = "install"

\* C2: when the Site Builder failed for a branch at head h in the previous cycle
\* and the branch is reported with the same head again, the Site Builder is
\* invoked again (the gate of this cycle, unless it fails itself, ends in install).
C2_FailedBuildRetried == [][C2_GateStep]_vars

\* a step of doBuild leads to its next step or ends the callback, whatever failed
C3_BuildStep ==
    pc \in BuildPcs =>
       /\ pc' \in BuildPcs \cup {"checkout", "down"}
       /\ pc' = "checkout" =>
             /\ idx' = idx + 1
             /\ refsOut' = Append(refsOut, branches[idx])
             /\ attempt'[branches[idx]].res # "none"
             /\ exitCode' = exitCode

\* C3: a failure at any step of one branch's build is caught in build: it never
\* ends the process, the enumeration goes on with the next branch, and when
\* the cycle reaches its reconciling pass every reported branch has had its
\* build callback at the head reported in this cycle.
C3_FailureContained ==
    /\ [][C3_BuildStep]_vars
    /\ [](pc \in ReconcilePcs =>
            \A b \in Range(currentBranches) :
               attempt[b].res # "none" /\ attempt[b].head = refs[b])

\* C3 happens: the build of "feat" failed, "main" was built after it in the same
\* cycle, and the cycle went through its passes to the sleep
C3_Witness ==
    /\ pc = "sleep"
    /\ currentBranches = <<"feat", "main">>
    /\ attempt["feat"].res = "failed"
    /\ attempt["main"].res = "built"
    /\ built["main"] = refs["main"]

\* what the gate of a branch with a configuration decides, when none of its
\* file-system calls fails: build exactly when the marker is absent or differs
C4_GateStep ==
    (pc = "gate" /\ head \in ConfigHeads) =>
       LET b == branches[idx]
           stale == marker[b] = Absent \/ Trim(marker[b]) # head
       IN  /\ pc' = "install" => stale
           /\ (pc' = "checkout" /\ attempt'[b].res # "error") =>
                 (~stale /\ attempt'[b].res = "uptodate")
           /\ built[b] = head => (pc' # "install" /\ marker'[b] = head)

\* C4: for a branch with a build configuration the Site Builder is invoked in a
\* cycle exactly when the marker is absent or its trimmed content differs from
\* the head (a gate whose own reads or writes fail ends as a build failure);
\* once a build at head h has succeeded, later cycles at head h never invoke it
\* again and leave the marker at h.
C4_BuildIffMarkerStale == [][C4_GateStep]_vars

\* C4 happens: two cycles after its build, "main" is found up to date at the
\* head of that build
C4_Witness ==
    /\ cycle >= 2
    /\ pc = "sleep"
    /\ attempt["main"] = [res |-> "uptodate", head |-> H1]
    /\ built["main"] = H1
    /\ marker["main"] = H1

\* only removeDeletedBranches removes anything of a branch, and only of a branch
\* of the previous snapshot that is not in the current one
C5_Step ==
    \A b \in Branches :
       (\/ dir[b] /\ ~dir'[b]
        \/ marker[b] # Absent /\ marker'[b] = Absent
        \/ page[b] # NoPage /\ page'[b] = NoPage)
       => (/\ pc = "remove"
           /\ Includes(previousBranches, b)
           /\ ~Includes(currentBranches, b))

\* C5: the reconciling pass removes the output directory of exactly the
\* branches in previous \ current: after removeDeletedBranches each of them is
\* gone unless its deletion failed, and nothing of a branch in current (or of
\* any other branch) is removed.
C5_RemovesExactlyDeleted ==
    /\ [][C5_Step]_vars
    /\ [](pc = "fix" =>
            \A b \in Range(previousBranches) \ Range(currentBranches) :
               ~dir[b] \/ b \in ioFailed)

\* C5 happens: "feat", built in the previous cycle, is no longer reported; its
\* directory is gone and that of "main" is kept
C5_Witness ==
    /\ pc = "fix"
    /\ previousBranches = <<"feat", "main">>
    /\ currentBranches = <<"main">>
    /\ attempt["feat"].res = "built"
    /\ ~dir["feat"]
    /\ dir["main"]
    /\ built["main"] # Gone

\* C6: after each reconciling pass, the branch list embedded in the entry page
\* of every current branch equals the current branch set (a branch without
\* entry page has none; a re-fix whose read or write failed is left aside).
C6_ListsAreCurrent ==
    pc = "sleep" =>
       \A b \in Range(currentBranches) :
          (page[b] # NoPage /\ b \notin ioFailed) =>
             EmbeddedLists(page[b]) = {Range(currentBranches)}

\* the fallback of the default branch, when the write of the redirect page
\* does not fail
C7_Step ==
    (/\ pc = "default"
     /\ Len(currentBranches) > 0
     /\ ~Includes(currentBranches, defaultBranch)
     /\ pc' # "down")
    => /\ defaultBranch' = currentBranches[1]
       /\ pc' = "remove" => redirect' = currentBranches[1]

\* C7: in a cycle whose branch set is not empty and does not hold the current
\* default branch, the default becomes the first branch the enumerator
\* reported and the redirect page is rewritten to name it.
C7_DefaultFallsBackToFirst == [][C7_Step]_vars

\* C7 happens: the default resolved at startup was "master", which is no
\* branch; the default and the redirect page now name "feat", the first branch
C7_Witness ==
    /\ pc = "remove"
    /\ startDefault = "master"
    /\ currentBranches = <<"feat", "main">>
    /\ defaultBranch = "feat"
    /\ redirect = "feat"

C8_Step == (pc' = "exited" /\ pc # "exited") => pc \in {"clone", "init"}

\* C8: once startup has succeeded no failure ends the process: main().catch is
\* reached only from the clone or from the setup before the loop.
C8_OnlyStartupExits == [][C8_Step]_vars

\* builds touch the output of the branch checked out only; once the
\* reconciling pass has begun no build step follows in the cycle; what a re-fix
\* writes is the list of the refs forEachBranch returned
C9_Step ==
    /\ pc \in BuildPcs =>
          \A b \in Branches \ {branches[idx]} :
             dir'[b] = dir[b] /\ marker'[b] = marker[b] /\ page'[b] = page[b]
    /\ pc \in ReconcilePcs => pc' \in ReconcilePcs \cup {"poll", "exited", "down"}
    /\ pc = "fix" =>
          \A b \in Branches :
             page'[b] # page[b] => EmbeddedLists(page'[b]) = {Range(refsOut)}

\* C9: within a cycle the builds run one at a time in the order the
\* enumerator reports, and the re-fix starts only when every build callback
\* of the cycle has settled, so it writes the final branch set of the cycle
\* and no build writes an entry page after it.
C9_FixAfterAllBuilds ==
    /\ [][C9_Step]_vars
    /\ [](pc \in ReconcilePcs =>
            /\ idx = Len(branches) + 1
            /\ currentBranches = refsOut
            /\ refsOut = SelectSeq(branches, LAMBDA b : Includes(refsOut, b)))

\* C9 happens: "feat" was listed but its checkout failed; "main" was built with
\* the list of both injected, and the re-fix has rewritten it to the final set
C9_Witness ==
    /\ pc = "fix"
    /\ fidx = 2
    /\ branches = <<"feat", "main">>
    /\ currentBranches = <<"main">>
    /\ attempt["main"].res = "built"
    /\ EmbeddedLists(page["main"]) = {{"main"}}

\* C10: a request whose path disappears between two steps of its handling
\* ends with an error response, never with an unhandled rejection.
C10_VanishedPathAnswered ==
    ~(srv.pc = "rejected" /\ srv.why = "vanished")

\* a path strictly below the storybooks directory
Below(p) ==
    /\ Len(p) > Len(Storybooks)
    /\ \A i \in 1..Len(Storybooks) : p[i] = Storybooks[i]

\* the pathname of the request in hand leads out of the storybooks directory
\* (or names the directory itself)
LeadsOut == ~Below(Normalize(Storybooks, srv.url))

C11_Step == (srv.pc = "read" /\ LeadsOut) => srv'.status # 200

\* C11 as stated: the server never reads a file outside the output root, and
\* a request whose resolved path is not prefixed by the output root is
\* rejected: it is never answered with content.
C11_TraversalRejected ==
    /\ [](srv.pc = "read" => Below(srv.localPath))
    /\ [][C11_Step]_vars

\* C11 as the code has it: whatever the pathname, the server looks up and
\* reads paths below the storybooks directory only; a pathname that resolves
\* to a path not below it is answered as a request for the directory itself
\* (its index.html, or a redirect to the trailing-slash form), never with
\* anything outside.
C11_ServedFromRootOnly ==
    srv.pc \in {"exists", "statSync", "read"} =>
       /\ srv.pc = "read" => Below(srv.localPath)
       /\ LeadsOut => srv.localPath \in {Storybooks, Append(Storybooks, "index.html")}
       /\ ~LeadsOut =>
             srv.localPath \in {Normalize(Storybooks, srv.url),
                                Append(Normalize(Storybooks, srv.url), "index.html")}

\* C11 happens: a request for /../ while a file exists above the storybooks
\* directory; the handler is about to read the entry page of the storybooks
C11_Witness ==
    /\ srv.pc = "read"
    /\ srv.url = <<"..", "">>
    /\ Normalize(Storybooks, srv.url) = <<"out">>
    /\ Node(<<"out", "repository", "package.json">>) = "file"
    /\ srv.localPath = <<"out", "storybooks", "index.html">>
    /\ Node(srv.localPath) = "file"

\* a turn of either loop of the pass goes on to the next branch whatever
\* failed, removes nothing of a branch that stays and creates nothing
C12_Step ==
    /\ (pc = "remove" /\ ridx <= Len(previousBranches) /\ pc' # "down") =>
          (pc' = "remove" /\ ridx' = ridx + 1)
    /\ (pc = "fix" /\ fidx <= Len(currentBranches) /\ pc' # "down") =>
          (pc' = "fix" /\ fidx' = fidx + 1)
    /\ pc \in {"remove", "fix"} =>
          \A b \in Branches :
             /\ ~dir[b] => ~dir'[b]
             /\ marker[b] = Absent => marker'[b] = Absent
             /\ page[b] = NoPage => page'[b] = NoPage

\* C12: in one reconciling pass a failed deletion or a failed read or write of
\* an entry page is logged and the pass goes on: when the deletions are over
\* every removed branch whose own deletion did not fail is gone, when the pass
\* is over every current branch whose own re-fix did not fail and whose page
\* holds a list holds the current one, and a missing page or directory is
\* passed over without anything being created.
C12_PassGoesOn ==
    /\ [][C12_Step]_vars
    /\ [](pc = "fix" =>
            \A b \in Range(previousBranches) \ Range(currentBranches) :
               b \notin ioFailed => (~dir[b] /\ page[b] = NoPage))
    /\ [](pc = "sleep" =>
            \A b \in Range(currentBranches) \ ioFailed :
               EmbeddedLists(page[b]) \subseteq {Range(currentBranches)})

\* C12 happens: both branches are gone from the remote; the deletion of
\* "feat" failed and "main", which had been built, was removed after it
C12_Witness ==
    /\ pc = "fix"
    /\ previousBranches = <<"feat", "main">>
    /\ currentBranches = <<>>
    /\ "feat" \in ioFailed
    /\ dir["feat"]
    /\ attempt["main"].res = "built"
    /\ ~dir["main"]

\* C12 happens in the re-fix: the rewrite of the page of "feat" failed and the
\* page of "main", after it, holds the current list
C12_WitnessFix ==
    /\ pc = "sleep"
    /\ currentBranches = <<"feat", "main">>
    /\ "feat" \in ioFailed
    /\ "main" \notin ioFailed
    /\ EmbeddedLists(page["main"]) = {{"feat", "main"}}

\* the gate of a branch checked out at a head without configuration
C13_Step ==
    (pc = "gate" /\ head \notin ConfigHeads /\ pc' # "down") =>
       LET b == branches[idx] IN
       /\ pc' = "checkout"
       /\ exitCode' = exitCode
       /\ refsOut' = Append(refsOut, b)
       /\ attempt'[b].res \in {"noconfig", "error"}
       /\ dir' = dir /\ marker' = marker /\ page' = page /\ built' = built

\* C13: when the tree checked out has no .storybook directory the build of
\* the branch is a skip (an error only if the look-up itself fails): the
\* branch is still reported, no directory is created, the marker, the
\* artifact and the entry page stay as they were; this holds in every cycle
\* and whatever the marker holds.
C13_NoConfigSkips == [][C13_Step]_vars

\* C13 happens: "main" was built at H1 and has moved to H3, which has no
\* configuration; after the cycle its marker, artifact and page are those of H1
C13_Witness ==
    /\ pc = "sleep"
    /\ refs["main"] = H3
    /\ attempt["main"] = [res |-> "noconfig", head |-> H3]
    /\ marker["main"] = H1
    /\ built["main"] = H1
    /\ dir["main"]
    /\ EmbeddedLists(page["main"]) # {}

\* what the handler does with the request in hand, against what is at its
\* resolved path when it does it (a stat that fails for a reason of the
\* file system other than the path itself is left aside)
C14_Step ==
    LET k == Stat(srv.localPath)
        slash == EndsWithSlash(srv.url)
    IN
    /\ (srv.pc = "exists" /\ srv' # srv /\ srv'.why # "statErr") =>
          IF k \in {"none", "notdir"}
          THEN srv'.pc = "idle" /\ srv'.status = 404
          ELSE srv'.pc = "statSync"
    /\ (srv.pc = "statSync" /\ srv' # srv) =>
          /\ k \in {"none", "notdir"} => (srv'.pc = "idle" /\ srv'.status = 404)
          /\ (k = "dir" /\ ~slash) => (srv'.pc = "idle" /\ srv'.status = 301)
          /\ (k = "dir" /\ slash) =>
                (srv'.pc = "read"
                 /\ srv'.localPath = Append(srv.localPath, "index.html"))
          /\ k = "file" => (srv'.pc = "read" /\ srv'.localPath = srv.localPath)
    /\ (srv.pc = "read" /\ srv' # srv) =>
          /\ srv'.pc = "idle"
          /\ \/ srv'.status = 500
             \/ /\ srv'.status = 200
                /\ k = "file"
                /\ srv'.type = IF srv.localPath[Len(srv.localPath)] = "index.html"
                               THEN "text/html" ELSE "text/plain"

\* C14: every request is answered by what is at its resolved path: 404 when
\* nothing is there, 301 for a directory asked for without trailing slash,
\* the index.html of a directory asked for with one, a file with the content
\* type of its extension (text/plain when unknown), 500 when the read fails.
C14_StatusByPath == [][C14_Step]_vars

\* the gate of a branch that had been dropped and is reported again
C15_GateStep ==
    (/\ pc = "gate"
     /\ attempt[branches[idx]].res = "dropped"
     /\ head \in ConfigHeads
     /\ pc' # "down"
     /\ attempt'[branches[idx]].res # "error")
    => pc' = "install"

\* C15: a branch of the previous snapshot that is not reported in a cycle
\* (deleted upstream, or its checkout failed) loses its output directory and
\* its marker in that cycle unless the deletion itself fails; neither comes
\* back while the branch stays unreported, and when it is reported again,
\* also at the head it had, the Site Builder is invoked for it.
C15_DroppedIsRebuilt ==
    /\ [](pc = "fix" =>
            \A b \in Range(previousBranches) \ Range(currentBranches) :
               b \notin ioFailed => (~dir[b] /\ marker[b] = Absent))
    /\ [](\A b \in Branches :
            (attempt[b].res = "dropped"
             /\ ~(pc \in BuildPcs \ {"gate"} /\ b = branches[idx]))
            => (~dir[b] /\ marker[b] = Absent))
    /\ [][C15_GateStep]_vars

\* C15 happens: "main" was built at H1, its checkout failed or it was gone in
\* a later cycle, and now it is back at H1 and its build has begun again
C15_Witness ==
    /\ pc = "install"
    /\ branches[idx] = "main"
    /\ head = H1
    /\ attempt["main"] = [res |-> "dropped", head |-> H1]
    /\ marker["main"] = H1
    /\ built["main"] = Gone

\* C15 happens by a failed checkout: "main" is still on the remote at H1 and
\* was dropped from the snapshot; its directory and marker are gone
C15_WitnessCheckout ==
    /\ pc = "sleep"
    /\ refs["main"] = H1
    /\ attempt["main"] = [res |-> "dropped", head |-> H1]
    /\ ~dir["main"]
    /\ marker["main"] = Absent

\* C16: whenever the loop sleeps or is about to fetch, the root redirect page
\* names the default branch held in memory, and that branch is one of the
\* branches of the cycle just completed unless there were none.
C16_RedirectIsDefault ==
    pc \in {"sleep", "fetch"} =>
       /\ redirect = defaultBranch
       /\ currentBranches # <<>> => Includes(currentBranches, defaultBranch)

\* C16 happens: the default resolved at startup was "main"; "main" is gone,
\* and the loop sleeps with "feat" as default and in the redirect page
C16_Witness ==
    /\ pc = "sleep"
    /\ cycle >= 1
    /\ startDefault = "main"
    /\ refs["main"] = Gone
    /\ currentBranches = <<"feat">>
    /\ defaultBranch = "feat"
    /\ redirect = "feat"

\* the default branch and the redirect page change at startup and in the
\* fallback of a cycle only, and not in a cycle without branches or with the
\* default among its branches
C17_Step ==
    /\ (/\ pc = "default"
        /\ (currentBranches = <<>> \/ Includes(currentBranches, defaultBranch))
        /\ pc' # "down")
       => (/\ pc' = "remove"
           /\ defaultBranch' = defaultBranch
           /\ redirect' = redirect)
    /\ (pc \notin {"init", "default", "exited", "down"} /\ pc' # "down") =>
          (defaultBranch' = defaultBranch /\ redirect' = redirect)

\* C17: in a cycle whose branch set is empty or holds the default branch, the
\* default branch and the redirect page are left as they are; so a default that
\* has fallen back to another branch stays there when the branch resolved at
\* startup is reported again beside it.
C17_DefaultIsSticky == [][C17_Step]_vars

\* C17 happens: the default resolved at startup was "main", the default fell
\* back to "feat" while "main" was gone, and "main" is reported again
C17_Witness ==
    /\ pc = "remove"
    /\ startDefault = "main"
    /\ previousBranches = <<"feat">>
    /\ currentBranches = <<"feat", "main">>
    /\ defaultBranch = "feat"
    /\ redirect = "feat"

\* C18: after every completed reconciling pass, every output directory under
\* the output root is that of a branch of the current set, also in the first
\* pass of a process started on the directories an earlier run left (a
\* directory whose deletion failed in this run is left aside).
C18_DirsAreCurrent ==
    pc = "sleep" =>
       \A b \in Branches :
          dir[b] => (Includes(currentBranches, b) \/ attempt[b].res = "undeleted")

====
